---- MODULE Spec2Model ----
(***************************************************************************)
(* Job orchestration and log streaming of server.js: the in-memory job     *)
(* store (createJob / updateJob / addJobLog), POST /compile-job, the       *)
(* orchestration task processCompilationJob with its child-process event   *)
(* handlers, GET /compile-job/:jobId/logs (poll and stream), and the two   *)
(* direct compilations POST /compile and POST /compile-stream, which use   *)
(* the same temporary directories.                                         *)
(*                                                                         *)
(* Every handler of server.js runs to completion on node's single thread,  *)
(* so each handler is one atomic action.  Date.now() is the variable       *)
(* clock, Math.random() an input of the submission, and the file system    *)
(* and the child process are the environment: their failures and events    *)
(* are nondeterministic inputs of the actions.                             *)
(***************************************************************************)
EXTENDS Integers, Sequences, FiniteSets, TLC

\* ---------------------------------------------------------------- bounds
\* MaxLoad bounds the requests served: a POST /compile-job (it may start an
\* orchestration task and a child process) weighs 2, as does a POST /compile;
\* a streaming subscription and a fetch weigh 1.
MaxLoad == 4
MaxClock == 1
MaxRnd == 2
MaxData == 1
MaxStoreLogs == 3
MaxStoreStatuses == 3
MaxDiagLines == 4
MaxStreams == 1

\* ---------------------------------------------------------------- values
\* null / undefined is the empty tuple, a set value v is <<v>>.
None == <<>>
Some(v) == <<v>>

QUEUED == "queued"
RUNNING == "running"
COMPLETED == "completed"
FAILED == "failed"
JOB_STATUS == {QUEUED, RUNNING, COMPLETED, FAILED}
Terminal == {COMPLETED, FAILED}

\* req.body.contractName and req.body.code: absent (None) or given.
ContractNames == {None, Some("demo")}
Codes == {None, Some(""), Some("src")}
\* !code
NoCode(code) == code = None \/ code = Some("")
Rnds == 1..MaxRnd
Clocks == 0..MaxClock

\* Text is a sequence of tokens; string concatenation is \o.
Chunks == {<<"x">>}
Channels == {"stdout", "stderr"}

\* String(code) inside a template literal.
CodeStr(code) ==
  IF code = None THEN "null"
  ELSE IF code[1] = 0 THEN "0"
  ELSE IF code[1] = 1 THEN "1"
  ELSE "-2"

\* Outcomes of the synchronous part of processCompilationJob:
\*   mkdir   an fs.mkdirSync throws before tempDir exists
\*   write   fs.writeFileSync throws (tempDir exists)
\*   spawn   spawn() throws synchronously (tempDir and the files exist)
\*   enoent  spawn() returns, the child could not be started: 'error', then 'close'
\*   ok      the child process is started
SetupOutcomes == {"mkdir", "write", "spawn", "enoent", "ok"}
SetupMsg(o) == IF o = "mkdir" THEN "EACCES mkdir" ELSE IF o = "write" THEN "ENOSPC write" ELSE "EPERM spawn"
LaunchMsg == "spawn /root/.cargo/bin/pop ENOENT"

\* Exit reports of a started child: a code, or null when it was killed by a signal.
ExitCodes == {Some(0), Some(1), None}
\* The signals that end a child: child.kill() sends SIGTERM, the system may
\* send another one.
Signals == {"SIGTERM", "SIGKILL"}

VARIABLES
  clock,      \* Date.now(), milliseconds
  jobs,       \* the Map jobs: id -> job record
  tasks,      \* one orchestration task per setImmediate(processCompilationJob)
  dirs,       \* the temporary directories that exist under compile_cache/temp
  subs,       \* the streaming responses of GET /compile-job/:jobId/logs?stream=true
  responses,  \* the responses of POST /compile-job, in order
  history,    \* per job id, the distinct status values its record took, in order
  replies,    \* the JSON responses of the GET requests on one job, in order
  streams,    \* the requests of POST /compile-stream: response and child
  compiles    \* the requests of POST /compile: position and response

vars == <<clock, jobs, tasks, dirs, subs, responses, history, replies, streams, compiles>>

\* ------------------------------------------------------------- job store
generateJobId(now, rnd) == <<"job", now, rnd>>

createJob(J, now, rnd, contractName, code) ==
  LET jobId == generateJobId(now, rnd)
      job == [ id |-> jobId,
               contractName |-> contractName,
               code |-> code,
               status |-> QUEUED,
               createdAt |-> now,
               startedAt |-> None,
               completedAt |-> None,
               logs |-> <<>>,
               stdout |-> <<>>,
               stderr |-> <<>>,
               result |-> None,
               error |-> None,
               exitCode |-> None ]
  IN (jobId :> job) @@ J

getJob(J, jobId) == IF jobId \in DOMAIN J THEN Some(J[jobId]) ELSE None

\* Object.assign(job, updates)
Assign(job, updates) ==
  [f \in DOMAIN job |-> IF f \in DOMAIN updates THEN updates[f] ELSE job[f]]

\* updateJob without the lookup by id: the updates are assigned to every job.
updateJobEvery(J, jobId, updates) ==
  [id \in DOMAIN J |-> Assign(J[id], updates)]

updateJob(J, jobId, updates) ==
  IF jobId \in DOMAIN J
  THEN [J EXCEPT ![jobId] = Assign(@, updates)]
  ELSE J

\* addJobLog that also aggregates the text of 'error' entries into stderr.
addJobLogErrors(J, jobId, now, type, message) ==
  IF jobId \in DOMAIN J
  THEN [J EXCEPT ![jobId] =
          [@ EXCEPT !.logs = Append(@, [timestamp |-> now, type |-> type, message |-> message]),
                    !.stdout = IF type = "stdout" THEN @ \o message ELSE @,
                    !.stderr = IF type \in {"stderr", "error"} THEN @ \o message ELSE @]]
  ELSE J

addJobLog(J, jobId, now, type, message) ==
  IF jobId \in DOMAIN J
  THEN [J EXCEPT ![jobId] =
          [@ EXCEPT !.logs = Append(@, [timestamp |-> now, type |-> type, message |-> message]),
                    !.stdout = IF type = "stdout" THEN @ \o message ELSE @,
                    !.stderr = IF type = "stderr" THEN @ \o message ELSE @]]
  ELSE J

\* The status values of the store J are added to the status history h: a
\* value equal to the last one recorded for the id is not a new value.
Observe(h, J) ==
  [id \in DOMAIN J |->
     IF id \in DOMAIN h
     THEN IF h[id][Len(h[id])] = J[id].status THEN h[id] ELSE Append(h[id], J[id].status)
     ELSE <<J[id].status>>]

\* ------------------------------------------------------ parseRustErrors
\* The text given to parseRustErrors is the output of the child: each of its
\* tokens is one character.  A character that a string of TLA+ cannot hold is
\* the token that spells its escape in JavaScript.
\* What \s of a regular expression matches and trim() removes: the white
\* space and the line terminators of ECMAScript.
Whitespace ==
  {" ", "\t", "\n", "\r", "\f", "\\u000b", "\\u00a0", "\\u1680",
   "\\u2000", "\\u2001", "\\u2002", "\\u2003", "\\u2004", "\\u2005", "\\u2006",
   "\\u2007", "\\u2008", "\\u2009", "\\u200a", "\\u2028", "\\u2029", "\\u202f",
   "\\u205f", "\\u3000", "\\ufeff"}
\* What '.' of a regular expression does not match.
LineTerminators == {"\n", "\r", "\\u2028", "\\u2029"}
Digits == {"0", "1", "2", "3", "4", "5", "6", "7", "8", "9"}

StartsWith(line, prefix) ==
  Len(prefix) <= Len(line) /\ SubSeq(line, 1, Len(prefix)) = prefix

\* errorOutput.split('\n')
RECURSIVE SplitLines(_)
SplitLines(text) ==
  LET nl == {i \in 1..Len(text) : text[i] = "\n"} IN
  IF nl = {} THEN <<text>>
  ELSE LET i == CHOOSE k \in nl : \A m \in nl : k <= m
       IN <<SubSeq(text, 1, i - 1)>> \o SplitLines(SubSeq(text, i + 1, Len(text)))

\* The number of characters of S at the start of text, at its end.
LeadingRun(text, S) ==
  LET stop == {i \in 1..Len(text) : text[i] \notin S}
  IN IF stop = {} THEN Len(text) ELSE (CHOOSE k \in stop : \A m \in stop : k <= m) - 1
TrailingRun(text, S) ==
  LET stop == {i \in 1..Len(text) : text[i] \notin S}
  IN IF stop = {} THEN Len(text) ELSE Len(text) - (CHOOSE k \in stop : \A m \in stop : k >= m)

DigitValue(d) == CHOOSE v \in 0..9 : <<"0", "1", "2", "3", "4", "5", "6", "7", "8", "9">>[v + 1] = d
\* parseInt that reads the last digit only.
parseIntLastDigit(digits) ==
  IF digits = <<>> THEN 0 ELSE DigitValue(digits[Len(digits)])

\* parseInt of a sequence of digits
RECURSIVE parseInt(_)
parseInt(digits) ==
  IF digits = <<>> THEN 0
  ELSE 10 * parseInt(SubSeq(digits, 1, Len(digits) - 1)) + DigitValue(digits[Len(digits)])

\* line.match(/^error\[([^\]]+)\]: (.+)$/): None, or the two groups.
ErrorMatch(line) ==
  LET closing == {i \in 7..Len(line) : line[i] = "]"} IN
  IF ~StartsWith(line, <<"e", "r", "r", "o", "r", "[">>) \/ closing = {} THEN None
  ELSE LET i == CHOOSE k \in closing : \A m \in closing : k <= m IN
       IF /\ i >= 8
          /\ Len(line) >= i + 3
          /\ line[i + 1] = ":"
          /\ line[i + 2] = " "
          /\ \A k \in (i + 3)..Len(line) : line[k] \notin LineTerminators
       THEN Some([code |-> SubSeq(line, 7, i - 1), message |-> SubSeq(line, i + 3, Len(line))])
       ELSE None

\* line.match(/^\s*-->\s*(.+):(\d+):(\d+)$/): None, or the location.
LocationMatch(line) ==
  LET n == Len(line)
      c2 == TrailingRun(line, Digits)
      p2 == n - c2
      head2 == SubSeq(line, 1, p2 - 1)
      c1 == TrailingRun(head2, Digits)
      p1 == p2 - 1 - c1
      P == SubSeq(line, 1, p1 - 1)
      lead == LeadingRun(P, Whitespace)
      R == SubSeq(P, lead + 4, Len(P))
      k == LeadingRun(R, Whitespace)
      file == IF k < Len(R) THEN SubSeq(R, k + 1, Len(R)) ELSE SubSeq(R, Len(R), Len(R))
  IN IF /\ c2 >= 1 /\ p2 >= 1 /\ line[p2] = ":"
        /\ c1 >= 1 /\ p1 >= 1 /\ line[p1] = ":"
        /\ Len(P) >= lead + 3
        /\ SubSeq(P, lead + 1, lead + 3) = <<"-", "-", ">">>
        /\ Len(R) >= 1
        /\ \A i \in 1..Len(file) : file[i] \notin LineTerminators
     THEN Some([file |-> file,
                line |-> parseInt(SubSeq(line, p1 + 1, p2 - 1)),
                column |-> parseInt(SubSeq(line, p2 + 1, n))])
     ELSE None

\* The test of the line without trim(): the line is not empty.
LineNonEmpty(line) == line # <<>>

\* line.trim() is not empty
TrimNonEmpty(line) == \E i \in 1..Len(line) : line[i] \notin Whitespace

\* The loop of parseRustErrors over the lines left, with the records pushed so
\* far and currentError (None or the open record; location None is no location).
RECURSIVE ParseLines(_, _, _)
ParseLines(lines, errors, currentError) ==
  IF lines = <<>>
  THEN IF currentError # None THEN Append(errors, currentError[1]) ELSE errors
  ELSE
    LET line == Head(lines)
        errorMatch == ErrorMatch(line)
        locationMatch == LocationMatch(line)
    IN IF errorMatch # None
       THEN ParseLines(Tail(lines),
                       IF currentError # None THEN Append(errors, currentError[1]) ELSE errors,
                       Some([code |-> errorMatch[1].code,
                             message |-> errorMatch[1].message,
                             details |-> <<>>,
                             location |-> None]))
       ELSE IF locationMatch # None /\ currentError # None
       THEN ParseLines(Tail(lines), errors,
                       Some([currentError[1] EXCEPT !.location = locationMatch]))
       ELSE IF /\ currentError # None
               /\ TrimNonEmpty(line)
               /\ ~StartsWith(line, <<"C", "o", "m", "p", "i", "l", "i", "n", "g">>)
               /\ ~StartsWith(line, <<"F", "i", "n", "i", "s", "h", "e", "d">>)
       THEN ParseLines(Tail(lines), errors,
                       Some([currentError[1] EXCEPT !.details = Append(@, line)]))
       ELSE ParseLines(Tail(lines), errors, currentError)

parseRustErrors(errorOutput) == ParseLines(SplitLines(errorOutput), <<>>, None)

\* ------------------------------------------------------ POST /compile-job
Ids == {generateJobId(now, rnd) : now \in Clocks, rnd \in Rnds}

Load == 2 * Len(responses) + Len(subs) + Len(replies) + 2 * Len(compiles)

\* exit is what 'close' reported for the child of the task: None before it,
\* Some(code) after it.
NewTask(jobId) ==
  [jobId |-> jobId, pc |-> "scheduled", tempDir |-> None, nData |-> 0, exit |-> None]

\* PostCompileJob with processCompilationJob(job.id) called in place, before
\* res.json, instead of through setImmediate.
PostCompileJobInPlace(code, contractName, rnd) ==
  /\ Load + 2 <= MaxLoad
  /\ ~NoCode(code)
  /\ LET name == IF contractName = None THEN "temp_contract" ELSE contractName[1]
         jobId == generateJobId(clock, rnd)
         J1 == createJob(jobs, clock, rnd, name, code[1])
         J2 == updateJob(J1, jobId, [status |-> RUNNING, startedAt |-> Some(clock)])
         J3 == addJobLog(J2, jobId, clock, "info", <<"Starting compilation...">>)
         job == J3[jobId]
     IN /\ jobs' = J3
        /\ responses' = Append(responses,
               [http |-> 200,
                job_id |-> job.id,
                status |-> job.status,
                message |-> "Compilation job queued successfully",
                created_at |-> job.createdAt])
        /\ tasks' = Append(tasks, [NewTask(job.id) EXCEPT !.pc = "running"])
        /\ history' = Observe(Observe(history, J1), J3)
        /\ UNCHANGED <<clock, dirs, subs, replies, streams, compiles>>

\* PostCompileJob with the validation of the payload after createJob: the
\* request without code is still answered 400, but its job is in the store.
PostCompileJobLateCheck(code, contractName, rnd) ==
  /\ Load + 2 <= MaxLoad
  /\ LET name == IF contractName = None THEN "temp_contract" ELSE contractName[1]
         jobId == generateJobId(clock, rnd)
         J1 == createJob(jobs, clock, rnd, name, IF NoCode(code) THEN "" ELSE code[1])
         job == J1[jobId]
     IN /\ jobs' = J1
        /\ history' = Observe(history, J1)
        /\ IF NoCode(code)
           THEN /\ responses' = Append(responses,
                       [http |-> 400, error |-> "Rust contract code is required"])
                /\ tasks' = tasks
           ELSE /\ responses' = Append(responses,
                       [http |-> 200,
                        job_id |-> job.id,
                        status |-> job.status,
                        message |-> "Compilation job queued successfully",
                        created_at |-> job.createdAt])
                /\ tasks' = Append(tasks, NewTask(job.id))
        /\ UNCHANGED <<clock, dirs, subs, replies, streams, compiles>>

PostCompileJob(code, contractName, rnd) ==
  /\ Load + 2 <= MaxLoad
  /\ IF NoCode(code)
     THEN /\ responses' = Append(responses,
                 [http |-> 400, error |-> "Rust contract code is required"])
          /\ UNCHANGED <<clock, jobs, tasks, dirs, subs, history, replies, streams, compiles>>
     ELSE LET name == IF contractName = None THEN "temp_contract" ELSE contractName[1]
              jobId == generateJobId(clock, rnd)
              J1 == createJob(jobs, clock, rnd, name, code[1])
              job == J1[jobId]
          IN /\ jobs' = J1
             /\ responses' = Append(responses,
                    [http |-> 200,
                     job_id |-> job.id,
                     status |-> job.status,
                     message |-> "Compilation job queued successfully",
                     created_at |-> job.createdAt])
             /\ tasks' = Append(tasks, NewTask(job.id))
             /\ history' = Observe(history, J1)
             /\ UNCHANGED <<clock, dirs, subs, replies, streams, compiles>>

\* ------------------------------------------------- processCompilationJob
TempDir(contractName, now) == <<contractName, now>>

processCompilationJob(t, outcome) ==
  /\ tasks[t].pc = "scheduled"
  /\ LET jobId == tasks[t].jobId IN
     IF getJob(jobs, jobId) = None
     THEN /\ tasks' = [tasks EXCEPT ![t].pc = "returned"]
          /\ UNCHANGED <<clock, jobs, dirs, subs, responses, history, replies, streams, compiles>>
     ELSE
       LET job == jobs[jobId]
           tempDir == TempDir(job.contractName, clock)
           J1 == updateJob(jobs, jobId, [status |-> RUNNING, startedAt |-> Some(clock)])
           J2 == addJobLog(J1, jobId, clock, "info", <<"Starting compilation...">>)
           J3 == addJobLog(J2, jobId, clock, "info", <<"Created compilation environment">>)
           J4 == addJobLog(J3, jobId, clock, "info", <<"Created project files">>)
           Catch(J) ==
             addJobLog(
               updateJob(J, jobId, [status |-> FAILED,
                                    completedAt |-> Some(clock),
                                    error |-> Some(SetupMsg(outcome))]),
               jobId, clock, "error", <<"Setup error: ", SetupMsg(outcome)>>)
       IN /\ jobs' = CASE outcome = "mkdir" -> Catch(J2)
                       [] outcome = "write" -> Catch(J3)
                       [] outcome = "spawn" -> Catch(J4)
                       [] OTHER -> J4
          /\ dirs' = IF outcome = "mkdir" THEN dirs ELSE dirs \cup {tempDir}
          /\ tasks' = [tasks EXCEPT ![t].tempDir = Some(tempDir),
                                    ![t].pc = CASE outcome = "ok" -> "running"
                                                [] outcome = "enoent" -> "launchfail"
                                                [] OTHER -> "setupfailed"]
          /\ history' = Observe(Observe(history, J1), jobs')
          /\ UNCHANGED <<clock, subs, responses, replies, streams, compiles>>

\* child.stdout.on('data') / child.stderr.on('data'), for a child that
\* writes at most bound chunks.
ChildDataBounded(t, channel, output, bound) ==
  /\ tasks[t].pc = "running"
  /\ tasks[t].nData < bound
  /\ jobs' = addJobLog(jobs, tasks[t].jobId, clock, channel, output)
  /\ tasks' = [tasks EXCEPT ![t].nData = @ + 1]
  /\ history' = Observe(history, jobs')
  /\ UNCHANGED <<clock, dirs, subs, responses, replies, streams, compiles>>

ChildData(t, channel, output) == ChildDataBounded(t, channel, output, MaxData)

\* The started child blocks for ever (nothing closes its stdin pipe and spawn
\* is given no timeout): no further event is delivered.
ChildHang(t) ==
  /\ tasks[t].pc = "running"
  /\ tasks' = [tasks EXCEPT ![t].pc = "hung"]
  /\ UNCHANGED <<clock, jobs, dirs, subs, responses, history, replies, streams, compiles>>

\* child.on('error')
ChildError(t) ==
  /\ tasks[t].pc = "launchfail"
  /\ LET jobId == tasks[t].jobId
         J1 == updateJob(jobs, jobId, [status |-> FAILED,
                                       completedAt |-> Some(clock),
                                       error |-> Some(LaunchMsg)])
     IN jobs' = addJobLog(J1, jobId, clock, "error", <<"Process error: ", LaunchMsg>>)
  /\ tasks' = [tasks EXCEPT ![t].pc = "errored"]
  /\ history' = Observe(history, jobs')
  /\ UNCHANGED <<clock, dirs, subs, responses, replies, streams, compiles>>

\* child.on('close'): after the exit of a started child, or after 'error' of a
\* child that could not be started (code is then the negative errno).  removed
\* is FALSE when fs.rmSync throws: the handler catches it and goes on.
ChildClose(t, code, removed) ==
  /\ \/ tasks[t].pc = "running" /\ code \in ExitCodes
     \/ tasks[t].pc = "errored" /\ code = Some(-2)
  /\ dirs' = IF removed THEN dirs \ {tasks[t].tempDir[1]} ELSE dirs
  /\ LET jobId == tasks[t].jobId IN
     IF code = Some(0)
     THEN jobs' = addJobLog(
                    updateJob(jobs, jobId, [status |-> COMPLETED,
                                            completedAt |-> Some(clock),
                                            exitCode |-> code,
                                            result |-> Some("Compilation successful")]),
                    jobId, clock, "success", <<"Compilation completed successfully">>)
     ELSE jobs' = addJobLog(
                    updateJob(jobs, jobId, [status |-> FAILED,
                                            completedAt |-> Some(clock),
                                            exitCode |-> code,
                                            error |-> Some("Compilation failed")]),
                    jobId, clock, "error",
                    <<"Compilation failed with exit code ", CodeStr(code)>>)
  /\ tasks' = [tasks EXCEPT ![t].pc = IF @ = "errored" THEN "errclosed" ELSE "closed",
                            ![t].exit = Some(code)]
  /\ history' = Observe(history, jobs')
  /\ UNCHANGED <<clock, subs, responses, replies, streams, compiles>>

\* ------------------------------------------------- GET /compile-job/:jobId
\* GetCompileJob that hands job.stdout to parseRustErrors.
GetCompileJobStdout(J, jobId) ==
  IF getJob(J, jobId) = None
  THEN [http |-> 404, error |-> "Job not found"]
  ELSE LET job == J[jobId] IN
       [http |-> 200,
        job_id |-> job.id,
        status |-> job.status,
        contract_name |-> job.contractName,
        created_at |-> job.createdAt,
        started_at |-> job.startedAt,
        completed_at |-> job.completedAt,
        exit_code |-> job.exitCode,
        result |-> IF job.status = COMPLETED
                   THEN Some([message |-> "Contract compiled successfully",
                              logs |-> job.stdout,
                              details |-> "Compilation completed without errors"])
                   ELSE None,
        error |-> IF job.status = FAILED
                  THEN Some([message |-> IF job.error = None \/ job.error = Some("")
                                         THEN "Compilation failed" ELSE job.error[1],
                             details |-> job.stderr,
                             logs |-> job.stdout,
                             rust_errors |-> parseRustErrors(job.stdout)])
                  ELSE None]

\* The response body (the store is left as it is).  A key that the handler
\* does not set, result or error, is None.
GetCompileJob(J, jobId) ==
  IF getJob(J, jobId) = None
  THEN [http |-> 404, error |-> "Job not found"]
  ELSE LET job == J[jobId] IN
       [http |-> 200,
        job_id |-> job.id,
        status |-> job.status,
        contract_name |-> job.contractName,
        created_at |-> job.createdAt,
        started_at |-> job.startedAt,
        completed_at |-> job.completedAt,
        exit_code |-> job.exitCode,
        result |-> IF job.status = COMPLETED
                   THEN Some([message |-> "Contract compiled successfully",
                              logs |-> job.stdout,
                              details |-> "Compilation completed without errors"])
                   ELSE None,
        error |-> IF job.status = FAILED
                  THEN Some([message |-> IF job.error = None \/ job.error = Some("")
                                         THEN "Compilation failed" ELSE job.error[1],
                             details |-> job.stderr,
                             logs |-> job.stdout,
                             rust_errors |-> parseRustErrors(job.stderr)])
                  ELSE None]

\* One status fetch: the response is sent.
FetchStatus(jobId) ==
  /\ Load + 1 <= MaxLoad
  /\ replies' = Append(replies, [req |-> "status", jobId |-> jobId,
                                 body |-> GetCompileJob(jobs, jobId)])
  /\ UNCHANGED <<clock, jobs, tasks, dirs, subs, responses, history, streams, compiles>>

\* -------------------------------------------- GET /compile-job/:jobId/logs
\* GetLogs without the not-found answer: an id that is not in the store is
\* answered like a job without output.
GetLogsLenient(J, jobId) ==
  IF getJob(J, jobId) = None
  THEN [http |-> 200, job_id |-> jobId, status |-> QUEUED,
        logs |-> <<>>, stdout |-> <<>>, stderr |-> <<>>]
  ELSE [http |-> 200,
        job_id |-> jobId,
        status |-> J[jobId].status,
        logs |-> J[jobId].logs,
        stdout |-> J[jobId].stdout,
        stderr |-> J[jobId].stderr]

\* Non-streaming branch: the response body (the store is left as it is).
GetLogs(J, jobId) ==
  IF getJob(J, jobId) = None
  THEN [http |-> 404, error |-> "Job not found"]
  ELSE [http |-> 200,
        job_id |-> jobId,
        status |-> J[jobId].status,
        logs |-> J[jobId].logs,
        stdout |-> J[jobId].stdout,
        stderr |-> J[jobId].stderr]

\* One non-streaming log fetch: the response is sent.
FetchLogs(jobId) ==
  /\ Load + 1 <= MaxLoad
  /\ replies' = Append(replies, [req |-> "logs", jobId |-> jobId,
                                 body |-> GetLogs(jobs, jobId)])
  /\ UNCHANGED <<clock, jobs, tasks, dirs, subs, responses, history, streams, compiles>>

LogEvent(log, jobId) ==
  [event |-> log.type,
   data |-> [timestamp |-> log.timestamp, type |-> log.type,
             message |-> log.message, job_id |-> jobId]]

CompleteEvent(jobId, status) ==
  [event |-> "complete", data |-> [job_id |-> jobId, status |-> status]]

\* Streaming branch: replay, then either the interval or the completion event.
GetLogsStream(jobId) ==
  /\ Load + 1 <= MaxLoad
  /\ IF getJob(jobs, jobId) = None
     THEN /\ replies' = Append(replies, [req |-> "stream", jobId |-> jobId,
                                         body |-> GetLogs(jobs, jobId)])
          /\ UNCHANGED <<clock, jobs, tasks, dirs, subs, responses, history, streams, compiles>>
     ELSE LET job == jobs[jobId]
              replay == [i \in 1..Len(job.logs) |-> LogEvent(job.logs[i], jobId)]
              live == job.status = RUNNING \/ job.status = QUEUED
          IN /\ subs' = Append(subs,
                   [jobId |-> jobId,
                    connStatus |-> job.status,
                    events |-> IF live THEN replay
                               ELSE Append(replay, CompleteEvent(jobId, job.status)),
                    state |-> IF live THEN "polling" ELSE "ended"])
             /\ UNCHANGED <<clock, jobs, tasks, dirs, responses, history, replies, streams, compiles>>

\* The setInterval callback of one streaming response.
IntervalTick(s) ==
  /\ subs[s].state = "polling"
  /\ LET currentJob == getJob(jobs, subs[s].jobId) IN
     IF currentJob = None \/ currentJob[1].status = COMPLETED \/ currentJob[1].status = FAILED
     THEN subs' = [subs EXCEPT
                     ![s].events = Append(@, CompleteEvent(subs[s].jobId,
                                      IF currentJob = None THEN None ELSE currentJob[1].status)),
                     ![s].state = "ended"]
     ELSE subs' = subs
  /\ UNCHANGED <<clock, jobs, tasks, dirs, responses, history, replies, streams, compiles>>

\* req.on('close'): the client of a polling stream disconnects.
ReqClose(s) ==
  /\ subs[s].state = "polling"
  /\ subs' = [subs EXCEPT ![s].state = "closed"]
  /\ UNCHANGED <<clock, jobs, tasks, dirs, responses, history, replies, streams, compiles>>

\* ----------------------------------------------------------- POST /compile
\* Outcomes of the synchronous part of the handler:
\*   mkdir   an fs.mkdirSync throws before tempDir is created
\*   write   fs.writeFileSync throws (tempDir exists)
\*   exec    exec() throws synchronously (tempDir and the files exist)
\*   ok      the shell of exec is started
CompileOutcomes == {"mkdir", "write", "exec", "ok"}
\* error.message of the error that exec hands to its callback
ExecMsg == <<"Command failed: cd tempDir && pop build">>
\* The stdout and the stderr that exec hands to its callback
ExecStdout == {<<>>, <<"x">>}
ExecStderr == {<<>>, <<"e", "r", "r", "o", "r", "[", "E", "1", "]", ":", " ", "m", "\n">>}

\* The handler up to its return.  The directory is named like that of a job
\* with the same contract name in the same millisecond.  On a setup failure
\* the catch removes tempDir if it exists; removed is FALSE when fs.rmSync
\* throws, which the handler catches.
PostCompile(code, contractName, outcome, removed) ==
  /\ Load + 2 <= MaxLoad
  /\ LET name == IF contractName = None THEN "temp_contract" ELSE contractName[1]
         tempDir == TempDir(name, clock)
         made == IF outcome = "mkdir" THEN dirs ELSE dirs \cup {tempDir}
         r == [pc |-> "rejected", contractName |-> name, tempDir |-> tempDir,
               response |-> Some([http |-> 400, error |-> "Rust contract code is required"])]
     IN IF NoCode(code)
        THEN /\ compiles' = Append(compiles, r)
             /\ dirs' = dirs
        ELSE IF outcome = "ok"
        THEN /\ compiles' = Append(compiles, [r EXCEPT !.pc = "running", !.response = None])
             /\ dirs' = made
        ELSE /\ compiles' = Append(compiles,
                    [r EXCEPT !.pc = "setupfailed",
                              !.response = Some([http |-> 500,
                                                 error |-> "Failed to setup compilation environment",
                                                 details |-> SetupMsg(outcome)])])
             /\ dirs' = IF tempDir \in made /\ removed THEN made \ {tempDir} ELSE made
  /\ UNCHANGED <<clock, jobs, tasks, subs, responses, history, replies, streams>>

\* The callback of exec of request i: error is None or Some(error.message).
ExecCallback(i, error, stdout, stderr, removed) ==
  /\ compiles[i].pc = "running"
  /\ dirs' = IF removed THEN dirs \ {compiles[i].tempDir} ELSE dirs
  /\ LET errorOutput == IF stderr # <<>> THEN stderr ELSE error[1]
     IN compiles' = [compiles EXCEPT
          ![i].pc = "answered",
          ![i].response =
             IF error # None
             THEN Some([http |-> 400,
                        success |-> FALSE,
                        error |-> "Compilation failed",
                        details |-> errorOutput,
                        rustErrors |-> parseRustErrors(errorOutput),
                        logs |-> stdout])
             ELSE Some([http |-> 200,
                        success |-> TRUE,
                        message |-> "Contract compiled successfully",
                        contractName |-> compiles[i].contractName,
                        logs |-> stdout,
                        details |-> "Contract compiled without errors"])]
  /\ UNCHANGED <<clock, jobs, tasks, subs, responses, history, replies, streams>>

\* --------------------------------------------------- POST /compile-stream
\* One call of sendEvent on the response of request r: the event, with whether
\* res.end() had been called and whether the client had gone at that moment.
Sent(r, type, data) ==
  [event |-> type, data |-> data, afterEnd |-> r.ended, afterGone |-> ~r.connected]

\* The request r after sendEvent(type, data).
sendEvent(r, type, data) == [r EXCEPT !.events = Append(@, Sent(r, type, data))]

\* The handler up to its return: the validation, the setup, spawn and the
\* registration of the handlers, or the catch of a setup failure.  listening
\* says that the 'close' handler of req is registered and has not run.
PostCompileStream(code, contractName, outcome) ==
  /\ Len(streams) < MaxStreams
  /\ LET name == IF contractName = None THEN "temp_contract" ELSE contractName[1]
         tempDir == TempDir(name, clock)
         r0 == [http |-> IF NoCode(code) THEN 400 ELSE 200,
                pc |-> "rejected",
                contractName |-> name,
                tempDir |-> tempDir,
                events |-> <<>>,
                ended |-> FALSE,
                connected |-> TRUE,
                listening |-> FALSE,
                killed |-> FALSE,
                exit |-> None,
                nData |-> 0,
                stdout |-> <<>>,
                stderr |-> <<>>]
         r1 == sendEvent(r0, "status",
                 [message |-> "Setting up compilation environment...", stage |-> "setup"])
         r2 == sendEvent(r1, "status",
                 [message |-> "Creating project structure...", stage |-> "project"])
         r3 == sendEvent(r2, "status",
                 [message |-> "Starting compilation...", stage |-> "compile"])
         Catch(r) ==
           [sendEvent(r, "error",
               [message |-> "Failed to setup compilation environment",
                details |-> SetupMsg(outcome),
                timestamp |-> clock])
            EXCEPT !.ended = TRUE, !.pc = "setupfailed"]
     IN IF NoCode(code)
        THEN /\ streams' = Append(streams, [r0 EXCEPT !.ended = TRUE])
             /\ dirs' = dirs
        ELSE /\ streams' = Append(streams,
                    CASE outcome = "mkdir" -> Catch(r1)
                      [] outcome = "write" -> Catch(r2)
                      [] outcome = "spawn" -> Catch(r3)
                      [] outcome = "enoent" -> [r3 EXCEPT !.pc = "launchfail", !.listening = TRUE]
                      [] OTHER -> [r3 EXCEPT !.pc = "running", !.listening = TRUE])
             /\ dirs' = IF outcome = "mkdir" THEN dirs ELSE dirs \cup {tempDir}
  /\ UNCHANGED <<clock, jobs, tasks, subs, responses, history, replies, compiles>>

\* child.stdout.on('data') / child.stderr.on('data') of request i
StreamChildData(i, channel, output) ==
  /\ streams[i].pc = "running"
  /\ streams[i].nData < MaxData
  /\ LET r == [streams[i] EXCEPT !.nData = @ + 1,
                                 !.stdout = IF channel = "stdout" THEN @ \o output ELSE @,
                                 !.stderr = IF channel = "stderr" THEN @ \o output ELSE @]
     IN streams' = [streams EXCEPT ![i] =
                      sendEvent(r, channel, [data |-> output, timestamp |-> clock])]
  /\ UNCHANGED <<clock, jobs, tasks, dirs, subs, responses, history, replies, compiles>>

\* child.on('error'): the two handlers, in the order of their registration.
StreamChildError(i) ==
  /\ streams[i].pc = "launchfail"
  /\ LET r1 == sendEvent(streams[i], "error",
                 [message |-> "Failed to start compilation process",
                  details |-> LaunchMsg,
                  rustErrors |-> <<>>,
                  logs |-> <<>>,
                  timestamp |-> clock])
         r2 == sendEvent(r1, "complete", [finished |-> TRUE, exitCode |-> None])
         r3 == sendEvent(r2, "error",
                 [message |-> "Process error", details |-> LaunchMsg, timestamp |-> clock])
     IN streams' = [streams EXCEPT ![i] = [r3 EXCEPT !.ended = TRUE, !.pc = "errored"]]
  /\ UNCHANGED <<clock, jobs, tasks, dirs, subs, responses, history, replies, compiles>>

\* child.on('close') of request i: after the exit of a started child (code is
\* null when a signal ended it), or after 'error' of a child that could not be
\* started (code is then the negative errno).  signal is the signal node
\* reports (None with a code), and removed is FALSE when fs.rmSync throws: the
\* handler catches it and goes on.
StreamChildClose(i, code, signal, removed) ==
  /\ \/ streams[i].pc = "running" /\ code \in ExitCodes
     \/ streams[i].pc = "errored" /\ code = Some(-2)
  /\ (code = None) = (signal # None)
  /\ streams[i].exit \in {None, Some(<<code, signal>>)}
  /\ dirs' = IF removed THEN dirs \ {streams[i].tempDir} ELSE dirs
  /\ LET r == streams[i]
         r1 == IF code = Some(0)
               THEN sendEvent(r, "success",
                      [message |-> "Contract compiled successfully",
                       contractName |-> r.contractName,
                       logs |-> r.stdout,
                       timestamp |-> clock])
               ELSE sendEvent(r, "error",
                      [message |-> "Compilation failed",
                       details |-> IF r.stderr = <<>> THEN <<"No error details captured">>
                                   ELSE r.stderr,
                       rustErrors |-> parseRustErrors(r.stderr),
                       logs |-> IF r.stdout = <<>> THEN <<"No output captured">> ELSE r.stdout,
                       exitCode |-> code,
                       signal |-> signal,
                       timestamp |-> clock])
         r2 == sendEvent(r1, "complete", [finished |-> TRUE, exitCode |-> code])
     IN streams' = [streams EXCEPT ![i] =
                      [r2 EXCEPT !.ended = TRUE,
                                 !.exit = IF r.pc = "running" THEN Some(<<code, signal>>) ELSE @,
                                 !.pc = IF r.pc = "errored" THEN "errclosed" ELSE "closed"]]
  /\ UNCHANGED <<clock, jobs, tasks, subs, responses, history, replies, compiles>>

\* The child of request i exits: node emits 'exit', for which the handler
\* registers nothing, and emits 'close' only when the pipes of the child are
\* closed, which a process that the child started may delay.  From here on
\* child.kill() finds no process to signal.
StreamChildExit(i, code, signal) ==
  /\ streams[i].pc = "running"
  /\ streams[i].exit = None
  /\ code \in ExitCodes
  /\ (code = None) = (signal # None)
  /\ streams' = [streams EXCEPT ![i].exit = Some(<<code, signal>>)]
  /\ UNCHANGED <<clock, jobs, tasks, dirs, subs, responses, history, replies, compiles>>

\* req.on('close') of request i.  node emits 'close' on the request when the
\* client has gone, and also once the request has been read completely while
\* the client still waits for the response (gone is FALSE).  child.kill() sets
\* child.killed only if the signal could be sent: to a child that has been
\* started and has not exited.  A
\* client that goes when no handler is registered only goes.  The 'error' of
\* a child that could not be started is delivered by process.nextTick, before
\* node handles any event of the request: no 'close' of the request comes
\* before it.
StreamReqClose(i, gone) ==
  /\ streams[i].http = 200
  /\ streams[i].pc # "launchfail"
  /\ streams[i].connected
  /\ gone \/ streams[i].listening
  /\ streams' = [streams EXCEPT
                   ![i].connected = ~gone,
                   ![i].listening = FALSE,
                   ![i].killed = @ \/ (/\ streams[i].listening
                                        /\ streams[i].pc = "running"
                                        /\ streams[i].exit = None)]
  /\ UNCHANGED <<clock, jobs, tasks, dirs, subs, responses, history, replies, compiles>>

\* ------------------------------------------------------------------ clock
Tick ==
  /\ clock < MaxClock
  /\ clock' = clock + 1
  /\ UNCHANGED <<jobs, tasks, dirs, subs, responses, history, replies, streams, compiles>>

\* ---------------------------------------------------------- specification
Init ==
  /\ clock = 0
  /\ jobs = <<>>
  /\ tasks = <<>>
  /\ dirs = {}
  /\ subs = <<>>
  /\ responses = <<>>
  /\ history = <<>>
  /\ replies = <<>>
  /\ streams = <<>>
  /\ compiles = <<>>

Submit == \E code \in Codes, contractName \in ContractNames, rnd \in Rnds :
            PostCompileJob(code, contractName, rnd)
Dispatch == \E t \in 1..Len(tasks), outcome \in SetupOutcomes : processCompilationJob(t, outcome)
Data == \E t \in 1..Len(tasks), channel \in Channels, output \in Chunks :
            ChildData(t, channel, output)
Hang == \E t \in 1..Len(tasks) : ChildHang(t)
Error == \E t \in 1..Len(tasks) : ChildError(t)
Close == \E t \in 1..Len(tasks), code \in ExitCodes \cup {Some(-2)}, removed \in BOOLEAN :
           ChildClose(t, code, removed)
Subscribe == \E jobId \in Ids : GetLogsStream(jobId)
Interval == \E s \in 1..Len(subs) : IntervalTick(s)
Disconnect == \E s \in 1..Len(subs) : ReqClose(s)
Status == \E jobId \in Ids : FetchStatus(jobId)
Compile == \E code \in Codes, contractName \in ContractNames,
               outcome \in CompileOutcomes, removed \in BOOLEAN :
             PostCompile(code, contractName, outcome, removed)
CompileDone == \E i \in 1..Len(compiles), error \in {None, Some(ExecMsg)},
                   stdout \in ExecStdout, stderr \in ExecStderr, removed \in BOOLEAN :
                 ExecCallback(i, error, stdout, stderr, removed)
Logs == \E jobId \in Ids : FetchLogs(jobId)

Next ==
  \/ Submit
  \/ Dispatch
  \/ Data
  \/ Hang
  \/ Error
  \/ Close
  \/ Subscribe
  \/ Interval
  \/ Disconnect
  \/ Status
  \/ Logs
  \/ Compile
  \/ CompileDone
  \/ Tick

Spec == Init /\ [][Next]_vars

\* The behaviours in which Math.random() never repeats an id of the store.
PostCompileJobDistinct(code, contractName, rnd) ==
  /\ ~NoCode(code) => generateJobId(clock, rnd) \notin DOMAIN jobs
  /\ PostCompileJob(code, contractName, rnd)

SubmitDistinct == \E code \in Codes, contractName \in ContractNames, rnd \in Rnds :
                    PostCompileJobDistinct(code, contractName, rnd)

NextDistinct ==
  \/ SubmitDistinct
  \/ Dispatch
  \/ Data
  \/ Hang
  \/ Error
  \/ Close
  \/ Subscribe
  \/ Interval
  \/ Disconnect
  \/ Status
  \/ Logs
  \/ Compile
  \/ CompileDone
  \/ Tick

SpecDistinctIds == Init /\ [][NextDistinct]_vars

\* node runs every pending callback: the setImmediate of a submission, the
\* 'error' and 'close' events of a child that failed to start or has not hung,
\* the callback of exec (exec is given a timeout), and the interval of a
\* connected stream.  Time passes.
Fairness ==
  /\ WF_vars(CompileDone)
  /\ WF_vars(Dispatch)
  /\ WF_vars(Error)
  /\ WF_vars(Close)
  /\ WF_vars(Interval)
  /\ WF_vars(Tick)

LiveSpec == SpecDistinctIds /\ Fairness

\* ------------------------------------------------ the job store on its own
\* createJob, updateJob and addJobLog called in any order and with any id,
\* with any entry type that the server uses and with texts of one and two
\* characters.  updateJob is given the updates that server.js passes to it and
\* the updates of the status alone.
LogTypes == {"info", "stdout", "stderr", "success", "error"}
StoreTexts == {<<"x">>, <<"y", "\n">>}

StoreLogs == LET Sum[S \in SUBSET DOMAIN jobs] ==
                   IF S = {} THEN 0
                   ELSE LET id == CHOOSE i \in S : TRUE
                        IN Len(jobs[id].logs) + Sum[S \ {id}]
             IN Sum[DOMAIN jobs]

\* The number of status values recorded so far, over all jobs.
StoreStatuses == LET Sum[S \in SUBSET DOMAIN history] ==
                       IF S = {} THEN 0
                       ELSE LET id == CHOOSE i \in S : TRUE
                            IN Len(history[id]) + Sum[S \ {id}]
                 IN Sum[DOMAIN history]

StoreUpdates ==
  {[status |-> status] : status \in JOB_STATUS}
  \cup {[status |-> RUNNING, startedAt |-> Some(clock)],
        [status |-> COMPLETED, completedAt |-> Some(clock), exitCode |-> Some(0),
         result |-> Some("Compilation successful")],
        [status |-> FAILED, completedAt |-> Some(clock), error |-> Some(LaunchMsg)]}
  \cup {[status |-> FAILED, completedAt |-> Some(clock), exitCode |-> code,
         error |-> Some("Compilation failed")] :
          code \in (ExitCodes \cup {Some(-2)}) \ {Some(0)}}
  \cup {[status |-> FAILED, completedAt |-> Some(clock), error |-> Some(SetupMsg(outcome))] :
          outcome \in {"mkdir", "write", "spawn"}}

StoreCreate ==
  /\ StoreStatuses < MaxStoreStatuses
  /\ \E rnd \in Rnds : jobs' = createJob(jobs, clock, rnd, "temp_contract", "src")
  /\ history' = Observe(history, jobs')
  /\ UNCHANGED <<clock, tasks, dirs, subs, responses, replies, streams, compiles>>

StoreUpdate ==
  /\ StoreStatuses < MaxStoreStatuses
  /\ \E jobId \in Ids, updates \in StoreUpdates : jobs' = updateJob(jobs, jobId, updates)
  /\ history' = Observe(history, jobs')
  /\ UNCHANGED <<clock, tasks, dirs, subs, responses, replies, streams, compiles>>

StoreLog ==
  /\ StoreLogs < MaxStoreLogs
  /\ \E jobId \in Ids, type \in LogTypes, message \in StoreTexts :
       jobs' = addJobLog(jobs, jobId, clock, type, message)
  /\ UNCHANGED <<clock, tasks, dirs, subs, responses, history, replies, streams, compiles>>

StoreNext ==
  \/ StoreCreate
  \/ StoreUpdate
  \/ StoreLog

StoreSpec == Init /\ [][StoreNext]_vars

\* ------------------------------------------------ the direct compilations
StreamSubmit == \E code \in Codes, contractName \in ContractNames, outcome \in SetupOutcomes :
                  PostCompileStream(code, contractName, outcome)
StreamData == \E i \in 1..Len(streams), channel \in Channels, output \in Chunks :
                StreamChildData(i, channel, output)
StreamError == \E i \in 1..Len(streams) : StreamChildError(i)
StreamExit == \E i \in 1..Len(streams), code \in ExitCodes,
                 signal \in {None} \cup {Some(sig) : sig \in Signals} :
                StreamChildExit(i, code, signal)
StreamClose == \E i \in 1..Len(streams), code \in ExitCodes \cup {Some(-2)},
                  signal \in {None} \cup {Some(sig) : sig \in Signals}, removed \in BOOLEAN :
                 StreamChildClose(i, code, signal, removed)
StreamDisconnect == \E i \in 1..Len(streams), gone \in BOOLEAN : StreamReqClose(i, gone)

StreamNext ==
  \/ StreamSubmit
  \/ StreamData
  \/ StreamError
  \/ StreamExit
  \/ StreamClose
  \/ StreamDisconnect
  \/ Tick

StreamSpec == Init /\ [][StreamNext]_vars

\* ------------------------------------------- one job with compiler output
\* One submission whose child writes lines of compiler diagnostics to stderr
\* (and progress to stdout), and one status fetch.
ErrorLine1 == <<"e", "r", "r", "o", "r", "[", "E", "1", "]", ":", " ", "m", "\n">>
ErrorLine2 == <<"e", "r", "r", "o", "r", "[", "E", "2", "]", ":", " ", "n", "\n">>
LocationLine1 == <<" ", "-", "-", ">", " ", "a", ":", "1", "0", ":", "5", "\n">>
LocationLine2 == <<"-", "-", ">", "b", ":", "1", ":", "2", "\n">>
DetailLine == <<"x", "\n">>
BlankLine == <<" ", "\f", "\n">>
CompilingLine == <<"C", "o", "m", "p", "i", "l", "i", "n", "g", " ", "a", "\n">>
FinishedLine == <<"F", "i", "n", "i", "s", "h", "e", "d", "\n">>

\* The chunks of stderr: whole lines, and a piece that does not end its line.
DiagChunks == {ErrorLine1, ErrorLine2, LocationLine1, LocationLine2, DetailLine,
               BlankLine, CompilingLine, FinishedLine, <<"x">>}
DiagOutputs == {<<"stdout", <<"x">>>>} \cup {<<"stderr", c>> : c \in DiagChunks}

DiagSubmit ==
  /\ Len(responses) = 0
  /\ \E contractName \in ContractNames : PostCompileJob(Some("src"), contractName, 1)

DiagData == \E t \in 1..Len(tasks), o \in DiagOutputs :
              ChildDataBounded(t, o[1], o[2], MaxDiagLines)

DiagFetch ==
  /\ Len(replies) = 0
  /\ \E jobId \in DOMAIN jobs : FetchStatus(jobId)

DiagNext ==
  \/ DiagSubmit
  \/ Dispatch
  \/ DiagData
  \/ Error
  \/ Close
  \/ DiagFetch

DiagSpec == Init /\ [][DiagNext]_vars

\* ================================================================ claims
IsPrefix(a, b) == Len(a) <= Len(b) /\ SubSeq(b, 1, Len(a)) = a

TaskIds == 1..Len(tasks)
SubIds == 1..Len(subs)
MaxTasks == MaxLoad \div 2

\* The child process of task t is alive.
ChildAlive(t) == tasks[t].pc \in {"running", "hung"}
\* No handler of task t is pending: the orchestration has come to its end.
TaskFinished(t) == tasks[t].pc \in {"setupfailed", "closed", "errclosed"}

\* The log entries up to the terminal transition: up to and including the
\* first outcome entry ('success' or 'error'), which the handler that makes
\* the job terminal appends.
TerminalPrefix(logs) ==
  LET outcome == {i \in 1..Len(logs) : logs[i].type \in {"success", "error"}}
  IN IF outcome = {} THEN logs
     ELSE SubSeq(logs, 1, CHOOSE i \in outcome : \A k \in outcome : i <= k)

\* What a streaming response received: its log entries, its completion events.
IsComplete(e) == e.event = "complete"
IsLogEvent(e) == e.event # "complete"
Delivered(s) ==
  LET ev == SelectSeq(subs[s].events, IsLogEvent)
  IN [i \in 1..Len(ev) |-> [timestamp |-> ev[i].data.timestamp,
                            type |-> ev[i].data.type,
                            message |-> ev[i].data.message]]
Completions(s) == SelectSeq(subs[s].events, IsComplete)
ConnectedLive(s) == subs[s].connStatus \in {QUEUED, RUNNING}

\* C1: the distinct status values a job takes are, in order, a prefix of
\* queued, running, completed or of queued, running, failed.
C1_StatusSequence ==
  \A id \in DOMAIN history :
    \/ IsPrefix(history[id], <<QUEUED, RUNNING, COMPLETED>>)
    \/ IsPrefix(history[id], <<QUEUED, RUNNING, FAILED>>)

\* C2: once a job is completed or failed, no step changes any field of its record.
C2_TerminalImmutable ==
  [][\A id \in DOMAIN jobs :
       jobs[id].status \in Terminal => jobs'[id] = jobs[id]]_vars

\* C3: a stream that connected to a queued or running job and has ended received
\* the log entries up to the terminal transition, in order, and then exactly one
\* 'complete' event carrying the terminal status.
C3_StreamDeliversAll ==
  \A s \in SubIds :
    (ConnectedLive(s) /\ subs[s].state = "ended") =>
      LET job == jobs[subs[s].jobId] IN
        /\ job.status \in Terminal
        /\ Delivered(s) = TerminalPrefix(job.logs)
        /\ Completions(s) = <<CompleteEvent(subs[s].jobId, job.status)>>
        /\ IsComplete(subs[s].events[Len(subs[s].events)])

\* C4: the log sequence a non-streaming fetch returns is a prefix of what a
\* stream that connected right after the creation of the job was delivered in all.
C4_PollPrefixOfStream ==
  \A s \in SubIds :
    (subs[s].connStatus = QUEUED /\ subs[s].state = "ended") =>
      IsPrefix(GetLogs(jobs, subs[s].jobId).logs, Delivered(s))

\* C5: a submission with a payload is answered with status queued and the id of
\* a job that, at that moment, is in the store, queued, not started, with an
\* empty log and with its orchestration still to run.
C5_SubmitRespondsQueued ==
  [][(Len(responses') > Len(responses) /\ responses'[Len(responses')].http = 200) =>
       LET r == responses'[Len(responses')] IN
         /\ r.status = QUEUED
         /\ r.job_id \in DOMAIN jobs'
         /\ jobs'[r.job_id].status = QUEUED
         /\ jobs'[r.job_id].startedAt = None
         /\ jobs'[r.job_id].logs = <<>>
         /\ tasks'[Len(tasks')].jobId = r.job_id
         /\ tasks'[Len(tasks')].pc = "scheduled"]_vars

\* C5 witness: a second submission has just been answered while the job of the
\* first one is running.
C5_Witness ==
  /\ Len(responses) = 2
  /\ responses[2].http = 200
  /\ tasks[Len(tasks)].pc = "scheduled"
  /\ jobs[responses[2].job_id].status = QUEUED
  /\ \E id \in DOMAIN jobs : jobs[id].status = RUNNING

\* C6: every dispatched job eventually becomes completed or failed.
C6_DispatchedJobTerminates ==
  \A t \in 1..MaxTasks :
    (t <= Len(tasks) /\ tasks[t].pc # "scheduled")
      ~> (t <= Len(tasks) /\ jobs[tasks[t].jobId].status \in Terminal)

\* C7: when the orchestration of a job has come to its end, the temporary
\* directory it created no longer exists.
C7_TempDirRemoved ==
  \A t \in TaskIds :
    (TaskFinished(t) /\ tasks[t].tempDir # None) => tasks[t].tempDir[1] \notin dirs

\* C8: two jobs whose child processes are alive at the same time work in
\* different directories.
C8_DistinctWorkingDirs ==
  \A t1, t2 \in TaskIds :
    (t1 # t2 /\ ChildAlive(t1) /\ ChildAlive(t2)) => tasks[t1].tempDir # tasks[t2].tempDir

\* C9: after a launch error, and after every later event of that child, the job
\* is failed, has no exit code and its error is the launch error's message.
C9_LaunchErrorKept ==
  \A t \in TaskIds :
    tasks[t].pc \in {"errored", "errclosed"} =>
      LET job == jobs[tasks[t].jobId] IN
        /\ job.status = FAILED
        /\ job.exitCode = None
        /\ job.error = Some(LaunchMsg)

\* C10: two streams that were connected to the same job while it was queued or
\* running, and that have both ended, each received the complete log entry
\* sequence of the job and one completion event of their own.
C10_FanOut ==
  \A s1, s2 \in SubIds :
    (s1 # s2 /\ subs[s1].jobId = subs[s2].jobId
       /\ ConnectedLive(s1) /\ ConnectedLive(s2)
       /\ subs[s1].state = "ended" /\ subs[s2].state = "ended") =>
      /\ Delivered(s1) = TerminalPrefix(jobs[subs[s1].jobId].logs)
      /\ Delivered(s2) = Delivered(s1)
      /\ Len(Completions(s1)) = 1
      /\ Len(Completions(s2)) = 1

\* The step is the disconnection of the client of stream s.
DisconnectStep(s) ==
  s \in SubIds /\ subs[s].state = "polling" /\ subs'[s].state = "closed"

\* The disconnection of one stream changes neither the store, nor a task or
\* its child, nor a directory, nor any other stream.
DisconnectFrame ==
  [][\A s \in 1..MaxLoad :
       DisconnectStep(s) =>
         /\ jobs' = jobs
         /\ tasks' = tasks
         /\ dirs' = dirs
         /\ \A o \in SubIds \ {s} : subs'[o] = subs[o]]_vars

\* C11: the disconnection of a stream's client changes nothing but that stream
\* (not the job record, not the child, not another stream), and the job of a
\* disconnected stream eventually is completed or failed, which is what a
\* status fetch then returns.
C11_DisconnectLeavesJobRunning ==
  /\ DisconnectFrame
  /\ \A s \in 1..MaxLoad :
       (s \in SubIds /\ subs[s].state = "closed")
         ~> (s \in SubIds /\ GetCompileJob(jobs, subs[s].jobId).status \in Terminal)

\* C12: two status fetches, or two non-streaming log fetches, of the same job,
\* the first of which found it completed or failed, return the same response.
C12_TerminalFetchesAgree ==
  \A i, j \in 1..Len(replies) :
    (/\ i < j
     /\ replies[i].req \in {"status", "logs"}
     /\ replies[j].req = replies[i].req
     /\ replies[j].jobId = replies[i].jobId
     /\ replies[i].body.http = 200
     /\ replies[i].body.status \in Terminal) =>
      replies[j].body = replies[i].body

\* C13: an accepted submission gets an id that no job of the store has, leaves
\* every job of the store as it was and makes the store one job larger.
C13_FreshId ==
  [][(Len(responses') > Len(responses) /\ responses'[Len(responses')].http = 200) =>
       LET jobId == responses'[Len(responses')].job_id IN
         /\ jobId \notin DOMAIN jobs
         /\ \A id \in DOMAIN jobs : id \in DOMAIN jobs' /\ jobs'[id] = jobs[id]
         /\ Cardinality(DOMAIN jobs') = Cardinality(DOMAIN jobs) + 1]_vars

\* The step is a step of the orchestration of task t.
TaskStep(t) == t \in TaskIds /\ tasks'[t] # tasks[t]

\* Task t is the only task of its job.
OnlyTask(t) == \A o \in TaskIds : tasks[o].jobId = tasks[t].jobId => o = t

\* The status that the progress and the child of task t give to its job.
OwnStatus(t) ==
  CASE tasks[t].pc = "scheduled" -> QUEUED
    [] tasks[t].pc \in {"running", "hung", "launchfail"} -> RUNNING
    [] tasks[t].pc = "closed" /\ tasks[t].exit = Some(Some(0)) -> COMPLETED
    [] OTHER -> FAILED

\* C14: an orchestration step of one job leaves the record of every job with
\* another id unchanged, and the status of a job with an id of its own is the
\* one that its own task and child process give it.
C14_JobsIndependent ==
  /\ [][\A t \in 1..MaxTasks :
          TaskStep(t) =>
            \A id \in DOMAIN jobs \ {tasks[t].jobId} : jobs'[id] = jobs[id]]_vars
  /\ [](\A t \in TaskIds :
          (OnlyTask(t) /\ tasks[t].pc # "returned") =>
            jobs[tasks[t].jobId].status = OwnStatus(t))

\* C14 witness: the child of one job has exited with a failure while the child
\* of a job with another id is alive and has written output.
C14_Witness ==
  \E t1, t2 \in TaskIds :
    /\ tasks[t1].jobId # tasks[t2].jobId
    /\ tasks[t1].pc = "closed" /\ jobs[tasks[t1].jobId].status = FAILED
    /\ ChildAlive(t2) /\ tasks[t2].nData = 1
    /\ jobs[tasks[t2].jobId].status = RUNNING

\* C15: a status fetch, a log fetch or a stream request for an id that is not
\* in the store is answered 404 'Job not found' and changes neither the store,
\* nor a task, nor a stream; no stream is opened for such an id.
C15_UnknownIdNotFound ==
  [][/\ (Len(replies') > Len(replies) /\ replies'[Len(replies')].jobId \notin DOMAIN jobs) =>
          /\ replies'[Len(replies')].body = [http |-> 404, error |-> "Job not found"]
          /\ jobs' = jobs
          /\ tasks' = tasks
          /\ subs' = subs
     /\ Len(subs') > Len(subs) => subs'[Len(subs')].jobId \in DOMAIN jobs]_vars

\* C15 witness: with a job in the store, a status fetch, a log fetch and a
\* stream request for other ids have been answered.
C15_Witness ==
  /\ DOMAIN jobs # {}
  /\ \E i, j \in 1..Len(replies) :
       /\ replies[i].req \in {"status", "logs"}
       /\ replies[j].req = "stream"
       /\ replies[i].jobId \notin DOMAIN jobs
       /\ replies[j].jobId \notin DOMAIN jobs
       /\ replies[i].body.http = 404
       /\ replies[j].body.http = 404

\* C16: a submission without code is answered 400 'Rust contract code is
\* required' and changes nothing else: no job is added or changed and no
\* orchestration task is scheduled.
C16_MissingCodeRejected ==
  [][\A contractName \in ContractNames, rnd \in Rnds :
       PostCompileJob(None, contractName, rnd) =>
         /\ responses' = Append(responses,
                                [http |-> 400, error |-> "Rust contract code is required"])
         /\ jobs' = jobs
         /\ tasks' = tasks
         /\ dirs' = dirs
         /\ history' = history]_vars

\* C16 witness: a submission has been rejected after another one was accepted,
\* and the store and the tasks hold the accepted job only.
C16_Witness ==
  /\ Len(responses) = 2
  /\ responses[1].http = 200
  /\ responses[2].http = 400
  /\ DOMAIN jobs = {responses[1].job_id}
  /\ Len(tasks) = 1

\* The concatenation, in log order, of the text of the entries of one type.
RECURSIVE ConcatOfType(_, _)
ConcatOfType(logs, type) ==
  IF logs = <<>> THEN <<>>
  ELSE (IF Head(logs).type = type THEN Head(logs).message ELSE <<>>)
         \o ConcatOfType(Tail(logs), type)

\* C17: for every job, stdout is the concatenation in log order of the text of
\* its 'stdout' entries and stderr that of its 'stderr' entries; entries of
\* other types are in neither.
C17_AggregatesMatchLog ==
  \A id \in DOMAIN jobs :
    /\ jobs[id].stdout = ConcatOfType(jobs[id].logs, "stdout")
    /\ jobs[id].stderr = ConcatOfType(jobs[id].logs, "stderr")

\* C17 witness: next to another job, a job whose log holds two different
\* stdout texts with an 'error' entry between them.
C17_Witness ==
  \E id, other \in DOMAIN jobs :
    /\ id # other
    /\ Len(jobs[id].logs) = 3
    /\ jobs[id].logs[1].type = "stdout" /\ jobs[id].logs[1].message = <<"y", "\n">>
    /\ jobs[id].logs[2].type = "error"
    /\ jobs[id].logs[3].type = "stdout" /\ jobs[id].logs[3].message = <<"x">>
    /\ jobs[id].stdout = <<"y", "\n", "x">>
    /\ jobs[id].stderr = <<>>

\* C18: no step removes or changes an entry of a job's log (the log before the
\* step is a prefix of the log after it), and what a log fetch returned and
\* what a stream delivered are prefixes of the log of the job.
C18_LogAppendOnly ==
  /\ [][\A id \in DOMAIN jobs :
          id \in DOMAIN jobs' /\ IsPrefix(jobs[id].logs, jobs'[id].logs)]_vars
  /\ [](/\ \A i \in 1..Len(replies) :
             (replies[i].req = "logs" /\ replies[i].body.http = 200) =>
               IsPrefix(replies[i].body.logs, jobs[replies[i].jobId].logs)
        /\ \A s \in SubIds : IsPrefix(Delivered(s), jobs[subs[s].jobId].logs))

\* processCompilationJob has run for task t; it has started a child process.
Dispatched(t) == tasks[t].pc # "scheduled"
ChildStarted(t) == tasks[t].pc \in {"running", "hung", "closed"}

\* C19: no two tasks of the same job id have both been run by
\* processCompilationJob, so no job id has two started child processes.
C19_OneChildPerJob ==
  \A t1, t2 \in TaskIds :
    (t1 # t2 /\ tasks[t1].jobId = tasks[t2].jobId) =>
      /\ ~(ChildStarted(t1) /\ ChildStarted(t2))
      /\ ~(Dispatched(t1) /\ Dispatched(t2))

\* C20: a queued or running job has no exit code, a completed job has exit
\* code 0, and the job of a child that exited with another code (the only
\* child of that job id) is failed and carries that code.
C20_ExitCodeMatchesStatus ==
  /\ \A id \in DOMAIN jobs :
       /\ jobs[id].status \in {QUEUED, RUNNING} => jobs[id].exitCode = None
       /\ jobs[id].status = COMPLETED => jobs[id].exitCode = Some(0)
  /\ \A t \in TaskIds :
       (OnlyTask(t) /\ tasks[t].pc = "closed" /\ tasks[t].exit # Some(Some(0))) =>
         /\ jobs[tasks[t].jobId].status = FAILED
         /\ Some(jobs[tasks[t].jobId].exitCode) = tasks[t].exit

\* C21: a job has an error message exactly when it is failed.
C21_ErrorIffFailed ==
  \A id \in DOMAIN jobs :
    (jobs[id].error # None /\ jobs[id].error # Some("")) <=> jobs[id].status = FAILED

\* C22: startedAt is unset exactly while the job is queued, completedAt is
\* unset exactly while it is queued or running, and a job with both has
\* startedAt <= completedAt.
C22_Timestamps ==
  \A id \in DOMAIN jobs :
    /\ jobs[id].startedAt = None <=> jobs[id].status = QUEUED
    /\ jobs[id].completedAt = None <=> jobs[id].status \in {QUEUED, RUNNING}
    /\ (jobs[id].startedAt # None /\ jobs[id].completedAt # None) =>
         jobs[id].startedAt[1] <= jobs[id].completedAt[1]

\* C23: the response of a status fetch for a known job carries the summary
\* fields of the record as it is at that moment and: when completed, a result
\* with the whole stdout and no error; when failed, an error with the message,
\* the whole stderr and parseRustErrors of that stderr, and no result; when
\* queued or running, neither.
C23_StatusFetchShape ==
  [][(/\ Len(replies') > Len(replies)
      /\ replies'[Len(replies')].req = "status"
      /\ replies'[Len(replies')].jobId \in DOMAIN jobs) =>
       LET job == jobs[replies'[Len(replies')].jobId]
           b == replies'[Len(replies')].body
       IN /\ b.http = 200
          /\ b.job_id = job.id
          /\ b.status = job.status
          /\ b.contract_name = job.contractName
          /\ b.created_at = job.createdAt
          /\ b.started_at = job.startedAt
          /\ b.completed_at = job.completedAt
          /\ b.exit_code = job.exitCode
          /\ (b.result # None) <=> (job.status = COMPLETED)
          /\ (b.error # None) <=> (job.status = FAILED)
          /\ job.status = COMPLETED => b.result[1].logs = job.stdout
          /\ job.status = FAILED =>
               /\ b.error[1].message = IF job.error = None \/ job.error = Some("")
                                       THEN "Compilation failed" ELSE job.error[1]
               /\ b.error[1].details = job.stderr
               /\ b.error[1].rust_errors = parseRustErrors(job.stderr)]_vars

\* C23 witness: the fetch of a failed job whose child wrote to stdout and wrote
\* one diagnostic with its location to stderr.
C23_Witness ==
  /\ Len(replies) = 1
  /\ replies[1].body.http = 200
  /\ replies[1].body.status = FAILED
  /\ replies[1].body.error[1].logs = <<"x">>
  /\ replies[1].body.error[1].details = ErrorLine1 \o LocationLine1
  /\ replies[1].body.error[1].rust_errors =
       <<[code |-> <<"E", "1">>, message |-> <<"m">>, details |-> <<>>,
          location |-> Some([file |-> <<"a">>, line |-> 10, column |-> 5])]>>

\* What the lines of compiler output are, read off the lines themselves: the
\* code and message of an error line, the location of a location line, the
\* blank lines and the build-progress lines.
Chop(chunk) == SubSeq(chunk, 1, Len(chunk) - 1)
HeaderOf(line) ==
  IF line = Chop(ErrorLine1) THEN Some([code |-> <<"E", "1">>, message |-> <<"m">>])
  ELSE IF line = Chop(ErrorLine2) THEN Some([code |-> <<"E", "2">>, message |-> <<"n">>])
  ELSE None
LocationOf(line) ==
  IF line = Chop(LocationLine1) THEN Some([file |-> <<"a">>, line |-> 10, column |-> 5])
  ELSE IF line = Chop(LocationLine2) THEN Some([file |-> <<"b">>, line |-> 1, column |-> 2])
  ELSE None
IsBlank(line) == line \in {<<>>, Chop(BlankLine)}
IsProgress(line) == line \in {Chop(CompilingLine), Chop(FinishedLine)}
IsDetail(line) ==
  HeaderOf(line) = None /\ LocationOf(line) = None /\ ~IsBlank(line) /\ ~IsProgress(line)

\* The indices of the error lines, of the location lines.
Headers(lines) == {i \in 1..Len(lines) : HeaderOf(lines[i]) # None}
Locations(lines) == {i \in 1..Len(lines) : LocationOf(lines[i]) # None}

\* C24 as stated: of a text with one error line, directly followed by its one
\* location line, parseRustErrors returns one record with the code, message
\* and location of these lines, and with details whenever a non-blank line
\* follows; of a text without error line it returns nothing.
C24_OneBlock ==
  \A id \in DOMAIN jobs :
    LET lines == SplitLines(jobs[id].stderr)
        r == parseRustErrors(jobs[id].stderr)
    IN /\ Headers(lines) = {} => r = <<>>
       /\ \A h \in Headers(lines) :
            (Headers(lines) = {h} /\ Locations(lines) = {h + 1}) =>
              /\ Len(r) = 1
              /\ r[1].code = HeaderOf(lines[h])[1].code
              /\ r[1].message = HeaderOf(lines[h])[1].message
              /\ r[1].location = LocationOf(lines[h + 1])
              /\ (\E i \in (h + 2)..Len(lines) : ~IsBlank(lines[i])) => r[1].details # <<>>

\* C24 amended: the same, with the details being exactly the lines after the
\* location line that are neither blank nor build-progress lines ('Compiling',
\* 'Finished'), in order; they are empty when only such lines follow.
C24_OneBlockAmended ==
  \A id \in DOMAIN jobs :
    LET lines == SplitLines(jobs[id].stderr)
        r == parseRustErrors(jobs[id].stderr)
    IN /\ Headers(lines) = {} => r = <<>>
       /\ \A h \in Headers(lines) :
            (Headers(lines) = {h} /\ Locations(lines) = {h + 1}) =>
              /\ Len(r) = 1
              /\ r[1].code = HeaderOf(lines[h])[1].code
              /\ r[1].message = HeaderOf(lines[h])[1].message
              /\ r[1].location = LocationOf(lines[h + 1])
              /\ r[1].details = SelectSeq(SubSeq(lines, h + 2, Len(lines)), IsDetail)

\* C24 witness: a progress line, an error line, its location line and one
\* more line have been written to stderr.
C24_Witness ==
  \E id \in DOMAIN jobs :
    /\ jobs[id].stderr = CompilingLine \o ErrorLine1 \o LocationLine1 \o DetailLine
    /\ parseRustErrors(jobs[id].stderr) =
         <<[code |-> <<"E", "1">>, message |-> <<"m">>, details |-> <<Chop(DetailLine)>>,
            location |-> Some([file |-> <<"a">>, line |-> 10, column |-> 5])]>>

\* The k-th smallest index of the set S.
Kth(S, k) == CHOOSE i \in S : Cardinality({j \in S : j < i}) = k - 1

\* C25: parseRustErrors returns one record per error line, in input order,
\* with the code and message of that line; its location is that of the last
\* location line between that error line and the next one (none if there is
\* none), and its details are the lines between the two that are not blank,
\* not location lines and not 'Compiling' or 'Finished' lines, in order; the
\* lines before the first error line are in no record.
C25_RecordPerHeader ==
  \A id \in DOMAIN jobs :
    LET lines == SplitLines(jobs[id].stderr)
        r == parseRustErrors(jobs[id].stderr)
        H == Headers(lines)
        n == Cardinality(H)
    IN /\ Len(r) = n
       /\ \A k \in 1..n :
            LET h == Kth(H, k)
                next == IF k < n THEN Kth(H, k + 1) ELSE Len(lines) + 1
                locs == {i \in Locations(lines) : h < i /\ i < next}
            IN /\ r[k].code = HeaderOf(lines[h])[1].code
               /\ r[k].message = HeaderOf(lines[h])[1].message
               /\ r[k].location = IF locs = {} THEN None
                                  ELSE LocationOf(lines[Kth(locs, Cardinality(locs))])
               /\ r[k].details = SelectSeq(SubSeq(lines, h + 1, next - 1), IsDetail)

\* C25 witness: stderr holds a detail line, an error line, its location line
\* and a second error line; the two records are returned in that order and the
\* first line is in neither.
C25_Witness ==
  \E id \in DOMAIN jobs :
    /\ jobs[id].stderr = DetailLine \o ErrorLine2 \o LocationLine2 \o ErrorLine1
    /\ parseRustErrors(jobs[id].stderr) =
         <<[code |-> <<"E", "2">>, message |-> <<"n">>, details |-> <<>>,
            location |-> Some([file |-> <<"b">>, line |-> 1, column |-> 2])],
           [code |-> <<"E", "1">>, message |-> <<"m">>, details |-> <<>>,
            location |-> None]>>

StreamIds == 1..Len(streams)

\* The child of request i has been sent the signal or is no longer alive.
ChildTerminated(i) ==
  streams[i].killed \/ streams[i].pc # "running" \/ streams[i].exit # None

\* C26: once the client of a direct compilation has gone, its child has been
\* terminated and no event is written to its response.
C26_NoEventAfterDisconnect ==
  \A i \in StreamIds :
    ~streams[i].connected =>
      /\ ChildTerminated(i)
      /\ \A k \in 1..Len(streams[i].events) : ~streams[i].events[k].afterGone

\* The positions of the 'complete' events written to the response of request i.
StreamCompletions(i) ==
  {k \in 1..Len(streams[i].events) : streams[i].events[k].event = "complete"}

\* C28: a response of a direct compilation that has been ended and was not cut
\* by a disconnect carries exactly one 'complete' event, which is its last
\* event, and nothing has been written to it after res.end().
C28_OneCompleteLast ==
  \A i \in StreamIds :
    (streams[i].http = 200 /\ streams[i].connected) =>
      /\ \A k \in 1..Len(streams[i].events) : ~streams[i].events[k].afterEnd
      /\ streams[i].ended =>
           StreamCompletions(i) = {Len(streams[i].events)}

\* A bound on the retained output that is below what one child can produce
\* here: the child writes up to MaxDiagLines chunks.
RetainedCap == MaxDiagLines - 1

\* The entries of the log of job id that hold output of the child.
OutputEntries(id) ==
  {k \in 1..Len(jobs[id].logs) : jobs[id].logs[k].type \in {"stdout", "stderr"}}

\* C27: the output retained for a job (the entries of its log with the text
\* aggregated from them) stays within the bound although the child produces
\* more than the bound.
C27_RetainedOutputBounded ==
  \A id \in DOMAIN jobs : Cardinality(OutputEntries(id)) <= RetainedCap

\* The positions of the entries of the given type in the log of job id.
EntriesOfType(id, type) ==
  {k \in 1..Len(jobs[id].logs) : jobs[id].logs[k].type = type}

\* C29: the log of a completed job holds one 'success' entry, its last entry,
\* and no 'error' entry; the log of a failed job holds one 'error' entry, its
\* last entry, and no 'success' entry; the log of a queued or running job
\* holds neither; and the log of a dispatched job starts with the 'info'
\* entry 'Starting compilation...'.
C29_OneOutcomeEntry ==
  /\ \A id \in DOMAIN jobs :
       LET n == Len(jobs[id].logs)
       IN /\ jobs[id].status = COMPLETED =>
               EntriesOfType(id, "success") = {n} /\ EntriesOfType(id, "error") = {}
          /\ jobs[id].status = FAILED =>
               EntriesOfType(id, "error") = {n} /\ EntriesOfType(id, "success") = {}
          /\ jobs[id].status \in {QUEUED, RUNNING} =>
               EntriesOfType(id, "success") = {} /\ EntriesOfType(id, "error") = {}
  /\ \A t \in TaskIds :
       (Dispatched(t) /\ tasks[t].jobId \in DOMAIN jobs) =>
         LET logs == jobs[tasks[t].jobId].logs
         IN /\ Len(logs) >= 1
            /\ logs[1].type = "info"
            /\ logs[1].message = <<"Starting compilation...">>

====
